---- MODULE Spec2Model ----
(***************************************************************************)
(* Model of github.com/alsiberij/alsnull: the generic nullable container   *)
(* Type[T] (fields value, ok), the wrapper Nullable[T] with its JSON and   *)
(* database/sql adapters, and the hook-based JSON adapter of Type[T].      *)
(*                                                                         *)
(* A Go value of any kind is the record [i, b]: i carries the number of a  *)
(* numeric kind (two's complement value), the truth value of a bool (0/1), *)
(* the instant of a time.Time, the field of a struct and, for []byte and   *)
(* json.RawMessage ("raw"), the non-nil flag; b carries the characters of  *)
(* a string, []byte or json.RawMessage; "func" is a function type, nil or   *)
(* not, which encoding/json refuses to encode.  The zero                   *)
(* value of every kind is [i |-> 0, b |-> <<>>].  Integer widths are       *)
(* scaled down (Bits8 .. Bits64) so that wrap-around stays observable.     *)
(***************************************************************************)
EXTENDS Integers, Sequences, FiniteSets, TLC

VARIABLES T, value, ok, IntBits, hook, op, arg, prevValue, prevOk, err, ret, calls

vars == <<T, value, ok, IntBits, hook, op, arg, prevValue, prevOk, err, ret, calls>>

(* ---------------------------- bounds ---------------------------------- *)
Bits8 == 1
Bits16 == 2
Bits32 == 2
Bits64 == 3
MaxLen == 2
MaxFloat == 3
MaxTime == 2

(* ---------------------------- kinds ----------------------------------- *)
SignedKinds == {"int", "int8", "int16", "int32", "int64"}

UnsignedKinds == {"uint", "uint8", "uint16", "uint32", "uint64"}

IntKinds == SignedKinds \cup UnsignedKinds

Kinds == IntKinds \cup {"float32", "float64", "bool", "bytes", "string", "time", "struct", "raw", "func"}

WireKinds == {"int64", "float64", "bool", "bytes", "string", "time"}

Pow2(n) == 2 ^ n

Bits(k, ib) ==
    CASE k \in {"int8", "uint8"} -> Bits8
      [] k \in {"int16", "uint16"} -> Bits16
      [] k \in {"int32", "uint32"} -> Bits32
      [] k \in {"int64", "uint64"} -> Bits64
      [] k \in {"int", "uint"} -> ib

(* Go integer conversion: keep the low w bits, reinterpret in the target. *)
ToUnsigned(x, w) == x % Pow2(w)

ToSigned(x, w) ==
    IF ToUnsigned(x, w) >= Pow2(w - 1) THEN ToUnsigned(x, w) - Pow2(w) ELSE ToUnsigned(x, w)

ConvInt(x, k, ib) ==
    IF k \in SignedKinds THEN ToSigned(x, Bits(k, ib)) ELSE ToUnsigned(x, Bits(k, ib))

IntRange(k, ib) ==
    IF k \in SignedKinds
    THEN (0 - Pow2(Bits(k, ib) - 1)) .. (Pow2(Bits(k, ib) - 1) - 1)
    ELSE 0 .. (Pow2(Bits(k, ib)) - 1)

(* float32 holds every other float64 of the model; float32(x) rounds. *)
ToFloat32(x) == x - (x % 2)

Chars == {"a", "b"}

Strs == UNION {[1..n -> Chars] : n \in 0..MaxLen}

Val(i, b) == [i |-> i, b |-> b]

Values(k, ib) ==
    CASE k \in IntKinds -> {Val(n, <<>>) : n \in IntRange(k, ib)}
      [] k = "float64" -> {Val(n, <<>>) : n \in 0..MaxFloat}
      [] k = "float32" -> {Val(ToFloat32(n), <<>>) : n \in 0..MaxFloat}
      [] k = "bool" -> {Val(n, <<>>) : n \in 0..1}
      [] k = "bytes" -> {Val(0, <<>>)} \cup {Val(1, s) : s \in Strs}
      [] k = "string" -> {Val(0, s) : s \in Strs}
      [] k = "time" -> {Val(n, <<>>) : n \in 0..MaxTime}
      [] k = "struct" -> {Val(n, <<>>) : n \in 0..1}
      [] k = "raw" -> {Val(0, <<>>), Val(1, <<"n", "u", "l", "l">>), Val(1, <<"1">>)}
      [] k = "func" -> {Val(n, <<>>) : n \in 0..1}

(* ------------------------- the container ------------------------------ *)
(* var v T; return v *)
DefaultValue(k) == Val(0, <<>>)

Container(v, o) == [value |-> v, ok |-> o]

TypeValue(v) == Container(v, TRUE)

NilPtr == [isNil |-> TRUE, v |-> Val(0, <<>>)]

PtrTo(v) == [isNil |-> FALSE, v |-> v]

Ptrs(k, ib) == {NilPtr} \cup {PtrTo(v) : v \in Values(k, ib)}

TypeValueFromPtr(k, p) ==
    IF p.isNil THEN Container(DefaultValue(k), FALSE) ELSE Container(p.v, TRUE)

NullableValue(v) == Container(v, TRUE)

NullableValueFromPtr(k, p) ==
    IF p.isNil THEN Container(DefaultValue(k), FALSE) ELSE Container(p.v, TRUE)

RawValue(k, c) == IF ~c.ok THEN DefaultValue(k) ELSE c.value

CheckedValue(k, c) == IF ~c.ok THEN <<DefaultValue(k), FALSE>> ELSE <<c.value, TRUE>>

IsNull(c) == ~c.ok

(* Mutant: SetNull that clears the flag and keeps the old value. *)
SetNullKeepsValue(k, c) == Container(c.value, FALSE)

SetNullOp(k, c) == Container(DefaultValue(k), FALSE)

SetValueOp(c, v) == Container(v, TRUE)

SetValueFromPtrOp(k, c, p) ==
    IF p.isNil THEN Container(DefaultValue(k), FALSE) ELSE Container(p.v, TRUE)

(* s.ok && v.ok && (!s.ok || s.value == v.value) *)
Equal(s, v) == s.ok /\ v.ok /\ (~s.ok \/ s.value = v.value)

(* ------------------------ driver values ------------------------------- *)
DV(k, i, b) == [k |-> k, i |-> i, b |-> b]

NilDV == DV("nil", 0, <<>>)

DriverValues(ib) ==
    {NilDV} \cup UNION {{DV(k, v.i, v.b) : v \in Values(k, ib)} : k \in WireKinds \cup {"int32", "struct"}}

ErrNil == "nil"

ErrTypeIsNotSupported == "type is not supported by driver.Valuer"

ErrScanningTypeMismatch == "scanning type mismatch"

(* The calls an operation made to the hooks: how many to JsonMarshaler    *)
(* and JsonUnmarshaler, which hook was assigned, and the value passed.    *)
Calls(m, u, h, v) == [marshal |-> m, unmarshal |-> u, hook |-> h, src |-> v]

NoCalls == Calls(0, 0, "none", Val(0, <<>>))

ResultH(c, e, r, n) == [c |-> c, err |-> e, ret |-> r, calls |-> n]

Result(c, e, r) == ResultH(c, e, r, NoCalls)

(* Mutant: Value that converts an integer through 32 bits. *)
ValueSwitchNarrow(k, v, ib) ==
    CASE k \in {"int", "int32", "int64", "uint", "uint32", "uint64"} ->
            DV("int64", ToSigned(v.i, Bits32), <<>>)
      [] k \in {"float32", "float64"} -> DV("float64", v.i, <<>>)
      [] k = "bool" -> DV("bool", v.i, <<>>)
      [] k = "bytes" -> DV("bytes", v.i, v.b)
      [] k = "string" -> DV("string", v.i, v.b)
      [] k = "time" -> DV("time", v.i, <<>>)
      [] OTHER -> NilDV

(* Nullable.Value: the type switch runs before the presence check. *)
ValueSwitch(k, v, ib) ==
    CASE k \in {"int", "int32", "int64", "uint", "uint32", "uint64"} ->
            DV("int64", ToSigned(v.i, Bits64), <<>>)
      [] k \in {"float32", "float64"} -> DV("float64", v.i, <<>>)
      [] k = "bool" -> DV("bool", v.i, <<>>)
      [] k = "bytes" -> DV("bytes", v.i, v.b)
      [] k = "string" -> DV("string", v.i, v.b)
      [] k = "time" -> DV("time", v.i, <<>>)
      [] OTHER -> NilDV

ValueSupported(k) ==
    k \in {"int", "int32", "int64", "uint", "uint32", "uint64",
           "float32", "float64", "bool", "bytes", "string", "time"}

Value(k, c, ib) ==
    IF ~ValueSupported(k) THEN Result(c, ErrTypeIsNotSupported, NilDV)
    ELSE IF ~c.ok THEN Result(c, ErrNil, NilDV)
    ELSE Result(c, ErrNil, ValueSwitch(k, c.value, ib))

(* Mutant: Scan that converts a driver int64 without reinterpreting it   *)
(* in an unsigned T.                                                      *)
ScanConvSigned(k, src, ib) ==
    CASE k \in {"int", "int32", "int64", "uint", "uint32", "uint64"} /\ src.k = "int64" ->
            <<TRUE, Val(ToSigned(src.i, Bits(k, ib)), <<>>)>>
      [] k = "float32" /\ src.k = "float64" -> <<TRUE, Val(ToFloat32(src.i), <<>>)>>
      [] k = "float64" /\ src.k = "float64" -> <<TRUE, Val(src.i, <<>>)>>
      [] k = "bool" /\ src.k = "bool" -> <<TRUE, Val(src.i, <<>>)>>
      [] k = "string" /\ src.k = "string" -> <<TRUE, Val(0, src.b)>>
      [] k = "string" /\ src.k = "bytes" -> <<TRUE, Val(0, src.b)>>
      [] k = "bytes" /\ src.k = "bytes" -> <<TRUE, Val(src.i, src.b)>>
      [] k = "bytes" /\ src.k = "string" -> <<TRUE, Val(1, src.b)>>
      [] k = "time" /\ src.k = "time" -> <<TRUE, Val(src.i, <<>>)>>
      [] OTHER -> <<FALSE, Val(0, <<>>)>>

(* Mutant: Scan that clamps a driver int64 to the range of T. *)
ScanConvSaturating(k, src, ib) ==
    CASE k \in {"int", "int32", "int64", "uint", "uint32", "uint64"} /\ src.k = "int64" ->
            <<TRUE, Val(IF src.i \in IntRange(k, ib) THEN src.i
                        ELSE IF src.i < 0 THEN 0 - (IF k \in SignedKinds THEN Pow2(Bits(k, ib) - 1) ELSE 0)
                        ELSE (IF k \in SignedKinds THEN Pow2(Bits(k, ib) - 1) ELSE Pow2(Bits(k, ib))) - 1,
                        <<>>)>>
      [] k = "float32" /\ src.k = "float64" -> <<TRUE, Val(ToFloat32(src.i), <<>>)>>
      [] k = "float64" /\ src.k = "float64" -> <<TRUE, Val(src.i, <<>>)>>
      [] k = "bool" /\ src.k = "bool" -> <<TRUE, Val(src.i, <<>>)>>
      [] k = "string" /\ src.k = "string" -> <<TRUE, Val(0, src.b)>>
      [] k = "string" /\ src.k = "bytes" -> <<TRUE, Val(0, src.b)>>
      [] k = "bytes" /\ src.k = "bytes" -> <<TRUE, Val(src.i, src.b)>>
      [] k = "bytes" /\ src.k = "string" -> <<TRUE, Val(1, src.b)>>
      [] k = "time" /\ src.k = "time" -> <<TRUE, Val(src.i, <<>>)>>
      [] OTHER -> <<FALSE, Val(0, <<>>)>>

(* Mutant: Scan that accepts only a src of the container's own kind. *)
ScanConvStrict(k, src, ib) ==
    CASE k \in {"int", "int32", "int64", "uint", "uint32", "uint64"} /\ src.k = "int64" ->
            <<TRUE, Val(ConvInt(src.i, k, ib), <<>>)>>
      [] k = "float32" /\ src.k = "float64" -> <<TRUE, Val(ToFloat32(src.i), <<>>)>>
      [] k = "float64" /\ src.k = "float64" -> <<TRUE, Val(src.i, <<>>)>>
      [] k = "bool" /\ src.k = "bool" -> <<TRUE, Val(src.i, <<>>)>>
      [] k = "string" /\ src.k = "string" -> <<TRUE, Val(0, src.b)>>
      [] k = "bytes" /\ src.k = "bytes" -> <<TRUE, Val(src.i, src.b)>>
      [] k = "time" /\ src.k = "time" -> <<TRUE, Val(src.i, <<>>)>>
      [] OTHER -> <<FALSE, Val(0, <<>>)>>

(* Nullable.Scan: one case per supported *T; a src that fails the type    *)
(* assertion falls out of the case without touching the container.        *)
ScanConv(k, src, ib) ==
    CASE k \in {"int", "int32", "int64", "uint", "uint32", "uint64"} /\ src.k = "int64" ->
            <<TRUE, Val(ConvInt(src.i, k, ib), <<>>)>>
      [] k = "float32" /\ src.k = "float64" -> <<TRUE, Val(ToFloat32(src.i), <<>>)>>
      [] k = "float64" /\ src.k = "float64" -> <<TRUE, Val(src.i, <<>>)>>
      [] k = "bool" /\ src.k = "bool" -> <<TRUE, Val(src.i, <<>>)>>
      [] k = "string" /\ src.k = "string" -> <<TRUE, Val(0, src.b)>>
      [] k = "string" /\ src.k = "bytes" -> <<TRUE, Val(0, src.b)>>
      [] k = "bytes" /\ src.k = "bytes" -> <<TRUE, Val(src.i, src.b)>>
      [] k = "bytes" /\ src.k = "string" -> <<TRUE, Val(1, src.b)>>
      [] k = "time" /\ src.k = "time" -> <<TRUE, Val(src.i, <<>>)>>
      [] OTHER -> <<FALSE, Val(0, <<>>)>>

ScanSupported(k) ==
    k \in {"int", "int32", "int64", "uint", "uint32", "uint64",
           "float32", "float64", "bool", "bytes", "string", "time"}

(* Mutant: Scan(nil) that clears the flag and keeps the old value. *)
ScanNilKeepsValue(k, c, src, ib) ==
    IF ~ScanSupported(k) THEN Result(c, ErrScanningTypeMismatch, NilDV)
    ELSE IF src.k = "nil" THEN Result(Container(c.value, FALSE), ErrNil, NilDV)
    ELSE IF ScanConv(k, src, ib)[1]
         THEN Result(Container(ScanConv(k, src, ib)[2], TRUE), ErrNil, NilDV)
         ELSE Result(c, ErrNil, NilDV)

(* Mutant: Scan that clears the container when the assertion fails. *)
ScanMismatchClears(k, c, src, ib) ==
    IF ~ScanSupported(k) THEN Result(c, ErrScanningTypeMismatch, NilDV)
    ELSE IF src.k = "nil" THEN Result(Container(DefaultValue(k), FALSE), ErrNil, NilDV)
    ELSE IF ScanConv(k, src, ib)[1]
         THEN Result(Container(ScanConv(k, src, ib)[2], TRUE), ErrNil, NilDV)
         ELSE Result(Container(DefaultValue(k), FALSE), ErrNil, NilDV)

Scan(k, c, src, ib) ==
    IF ~ScanSupported(k) THEN Result(c, ErrScanningTypeMismatch, NilDV)
    ELSE IF src.k = "nil" THEN Result(Container(DefaultValue(k), FALSE), ErrNil, NilDV)
    ELSE IF ScanConv(k, src, ib)[1]
         THEN Result(Container(ScanConv(k, src, ib)[2], TRUE), ErrNil, NilDV)
         ELSE Result(c, ErrNil, NilDV)

errUnsupportedValue == "unsupported value"

(* Type.Scan of Type[T SupportedTypes]: a []byte src is converted to a    *)
(* string before the assertion src.(T).                                   *)
TypeScan(k, s, src) ==
    IF src.k = "nil" THEN Result(Container(DefaultValue(k), FALSE), ErrNil, NilDV)
    ELSE IF src.k = "bytes"
         THEN IF k = "string" THEN Result(Container(Val(0, src.b), TRUE), ErrNil, NilDV)
              ELSE Result(s, errUnsupportedValue, NilDV)
    ELSE IF src.k = k THEN Result(Container(Val(src.i, src.b), TRUE), ErrNil, NilDV)
    ELSE Result(s, errUnsupportedValue, NilDV)

(* --------------------------- JSON texts ------------------------------- *)
(* A JSON text is a sequence of characters.  encoding/json is modelled by  *)
(* its output format per kind: decimal numbers, true/false, quoted strings, *)
(* base64 (a character substitution here) for []byte with null for a nil   *)
(* slice, a quoted RFC 3339 instant ("T" and the instant) for time.Time,   *)
(* an object for a struct, and for a json.RawMessage the message itself     *)
(* (null for a nil one); decoding hands a json.RawMessage every valid text, *)
(* null included, while for the other kinds null leaves v untouched.        *)
nullBytes == <<"n", "u", "l", "l">>

DigitChars == <<"0", "1", "2", "3", "4", "5", "6", "7", "8", "9">>

Quote == "\""

RECURSIVE DecNat(_)
DecNat(n) == IF n < 10 THEN <<DigitChars[n + 1]>> ELSE DecNat(n \div 10) \o <<DigitChars[(n % 10) + 1]>>

Dec(n) == IF n < 0 THEN <<"-">> \o DecNat(0 - n) ELSE DecNat(n)

IsDigit(ch) == \E d \in 1..10 : DigitChars[d] = ch

DigitVal(ch) == (CHOOSE d \in 1..10 : DigitChars[d] = ch) - 1

RECURSIVE NatVal(_)
NatVal(s) == IF Len(s) = 0 THEN 0 ELSE NatVal(SubSeq(s, 1, Len(s) - 1)) * 10 + DigitVal(s[Len(s)])

IsNatText(s) ==
    /\ Len(s) > 0
    /\ \A j \in 1..Len(s) : IsDigit(s[j])
    /\ (Len(s) > 1 => s[1] # "0")

IsNumText(s) ==
    IF Len(s) > 0 /\ s[1] = "-" THEN IsNatText(Tail(s)) ELSE IsNatText(s)

NumVal(s) == IF s[1] = "-" THEN 0 - NatVal(Tail(s)) ELSE NatVal(s)

B64Char(ch) == IF ch = "a" THEN "Y" ELSE "Z"

UnB64Char(ch) == IF ch = "Y" THEN "a" ELSE "b"

B64(s) == [j \in 1..Len(s) |-> B64Char(s[j])]

UnB64(s) == [j \in 1..Len(s) |-> UnB64Char(s[j])]

Quoted(s) == <<Quote>> \o s \o <<Quote>>

IsQuoted(s) == Len(s) >= 2 /\ s[1] = Quote /\ s[Len(s)] = Quote

Inner(s) == SubSeq(s, 2, Len(s) - 1)

IsValidJSON(s) ==
    \/ s \in {nullBytes, <<"t", "r", "u", "e">>, <<"f", "a", "l", "s", "e">>}
    \/ IsNumText(s)
    \/ (IsQuoted(s) /\ \A j \in 1..Len(Inner(s)) : Inner(s)[j] # Quote)
    \/ (Len(s) > 2 /\ s[1] = "{" /\ s[Len(s)] = "}" /\ IsNatText(Inner(s)))

(* json.Marshal *)
jsonMarshal(k, v) ==
    CASE k \in IntKinds \cup {"float32", "float64"} -> Dec(v.i)
      [] k = "bool" -> IF v.i = 1 THEN <<"t", "r", "u", "e">> ELSE <<"f", "a", "l", "s", "e">>
      [] k = "string" -> Quoted(v.b)
      [] k = "bytes" -> IF v.i = 0 THEN nullBytes ELSE Quoted(B64(v.b))
      [] k = "time" -> Quoted(<<"T">> \o Dec(v.i))
      [] k = "struct" -> <<"{">> \o Dec(v.i) \o <<"}">>
      [] k = "raw" -> IF v.i = 0 THEN nullBytes ELSE v.b
      [] k = "func" -> <<>>

ErrUnsupportedType == "json: unsupported type"

(* The error json.Marshal returns beside its bytes. *)
jsonMarshalErr(k, v) == IF k = "func" THEN ErrUnsupportedType ELSE ErrNil

DecodeOk(v) == <<TRUE, v>>

DecodeErr == <<FALSE, Val(0, <<>>)>>

(* json.Unmarshal into a fresh "var v T": <<accepted, v>>. *)
jsonUnmarshal(k, s, ib) ==
    IF k = "raw" THEN (IF IsValidJSON(s) THEN DecodeOk(Val(1, s)) ELSE DecodeErr)
    ELSE IF s = nullBytes THEN DecodeOk(Val(0, <<>>))
    ELSE CASE k \in IntKinds ->
                IF IsNumText(s) /\ NumVal(s) \in IntRange(k, ib)
                THEN DecodeOk(Val(NumVal(s), <<>>)) ELSE DecodeErr
           [] k = "float64" -> IF IsNumText(s) THEN DecodeOk(Val(NumVal(s), <<>>)) ELSE DecodeErr
           [] k = "float32" -> IF IsNumText(s) THEN DecodeOk(Val(ToFloat32(NumVal(s)), <<>>)) ELSE DecodeErr
           [] k = "bool" ->
                IF s = <<"t", "r", "u", "e">> THEN DecodeOk(Val(1, <<>>))
                ELSE IF s = <<"f", "a", "l", "s", "e">> THEN DecodeOk(Val(0, <<>>))
                ELSE DecodeErr
           [] k = "string" ->
                IF IsQuoted(s) /\ \A j \in 1..Len(Inner(s)) : Inner(s)[j] # Quote
                THEN DecodeOk(Val(0, Inner(s))) ELSE DecodeErr
           [] k = "bytes" ->
                IF IsQuoted(s) /\ \A j \in 1..Len(Inner(s)) : Inner(s)[j] \in {"Y", "Z"}
                THEN DecodeOk(Val(1, UnB64(Inner(s)))) ELSE DecodeErr
           [] k = "time" ->
                IF IsQuoted(s) /\ Len(Inner(s)) > 1 /\ Inner(s)[1] = "T" /\ IsNatText(Tail(Inner(s)))
                THEN DecodeOk(Val(NatVal(Tail(Inner(s))), <<>>)) ELSE DecodeErr
           [] k = "struct" ->
                IF Len(s) > 2 /\ s[1] = "{" /\ s[Len(s)] = "}" /\ IsNatText(Inner(s))
                THEN DecodeOk(Val(NatVal(Inner(s)), <<>>)) ELSE DecodeErr
           [] k = "func" -> DecodeErr

(* The hooks JsonMarshaler / JsonUnmarshaler: the defaults call            *)
(* encoding/json; the documented override renders a time.Time as a quoted  *)
(* date ("D" and the instant) and falls back to encoding/json otherwise.   *)
Hooks == {"default", "custom"}

JsonMarshaler(h, k, v) ==
    IF h = "custom" /\ k = "time" THEN Quoted(<<"D">> \o Dec(v.i)) ELSE jsonMarshal(k, v)

JsonMarshalerErr(h, k, v) ==
    IF h = "custom" /\ k = "time" THEN ErrNil ELSE jsonMarshalErr(k, v)

JsonUnmarshaler(h, k, s, ib) ==
    IF h = "custom" /\ k = "time"
    THEN IF IsQuoted(s) /\ Len(Inner(s)) > 1 /\ Inner(s)[1] = "D" /\ IsNatText(Tail(Inner(s)))
         THEN DecodeOk(Val(NatVal(Tail(Inner(s))), <<>>)) ELSE DecodeErr
    ELSE jsonUnmarshal(k, s, ib)

ErrDecode == "json: cannot unmarshal"

JsonDV(s) == DV("json", 0, s)

(* Mutant: UnmarshalJSON that sets the flag and drops the decoded value. *)
NullableUnmarshalJSONDropsValue(k, c, bytes, ib) ==
    IF bytes = nullBytes THEN Result(Container(DefaultValue(k), FALSE), ErrNil, NilDV)
    ELSE IF ~jsonUnmarshal(k, bytes, ib)[1] THEN Result(c, ErrDecode, NilDV)
    ELSE Result(Container(c.value, TRUE), ErrNil, NilDV)

(* Mutant: MarshalJSON that encodes the value without looking at ok. *)
NullableMarshalJSONIgnoresOk(k, c) ==
    Result(c, jsonMarshalErr(k, c.value), JsonDV(jsonMarshal(k, c.value)))

(* Mutant: UnmarshalJSON that decodes into t.value itself, so a rejected *)
(* text leaves the slot overwritten.                                     *)
NullableUnmarshalJSONInPlace(k, c, bytes, ib) ==
    IF bytes = nullBytes THEN Result(Container(DefaultValue(k), FALSE), ErrNil, NilDV)
    ELSE IF ~jsonUnmarshal(k, bytes, ib)[1] THEN Result(Container(DefaultValue(k), c.ok), ErrDecode, NilDV)
    ELSE Result(Container(jsonUnmarshal(k, bytes, ib)[2], TRUE), ErrNil, NilDV)

(* Nullable.MarshalJSON / Nullable.UnmarshalJSON *)
NullableMarshalJSON(k, c) ==
    IF ~c.ok THEN Result(c, ErrNil, JsonDV(nullBytes))
    ELSE Result(c, jsonMarshalErr(k, c.value), JsonDV(jsonMarshal(k, c.value)))

NullableUnmarshalJSON(k, c, bytes, ib) ==
    IF bytes = nullBytes THEN Result(Container(DefaultValue(k), FALSE), ErrNil, NilDV)
    ELSE IF ~jsonUnmarshal(k, bytes, ib)[1] THEN Result(c, ErrDecode, NilDV)
    ELSE Result(Container(jsonUnmarshal(k, bytes, ib)[2], TRUE), ErrNil, NilDV)

(* Type.MarshalJSON / Type.UnmarshalJSON (hook based) *)
(* Mutant: MarshalJSON that calls encoding/json instead of the hook. *)
TypeMarshalJSONDirect(h, k, s) ==
    IF ~s.ok THEN Result(s, ErrNil, JsonDV(nullBytes))
    ELSE ResultH(s, jsonMarshalErr(k, s.value), JsonDV(jsonMarshal(k, s.value)),
                 Calls(1, 0, "default", s.value))

TypeMarshalJSON(h, k, s) ==
    IF ~s.ok THEN Result(s, ErrNil, JsonDV(nullBytes))
    ELSE ResultH(s, JsonMarshalerErr(h, k, s.value), JsonDV(JsonMarshaler(h, k, s.value)),
                 Calls(1, 0, h, s.value))

(* Mutant: UnmarshalJSON that decodes into the container's own slot, so  *)
(* a rejected text leaves it cleared.                                    *)
TypeUnmarshalJSONInPlace(h, k, s, b, ib) ==
    IF b = nullBytes THEN Result(Container(DefaultValue(k), FALSE), ErrNil, NilDV)
    ELSE IF ~JsonUnmarshaler(h, k, b, ib)[1]
         THEN ResultH(Container(DefaultValue(k), s.ok), ErrDecode, NilDV, Calls(0, 1, h, Val(0, <<>>)))
    ELSE ResultH(Container(JsonUnmarshaler(h, k, b, ib)[2], TRUE), ErrNil, NilDV,
                 Calls(0, 1, h, Val(0, <<>>)))

TypeUnmarshalJSON(h, k, s, b, ib) ==
    IF b = nullBytes THEN Result(Container(DefaultValue(k), FALSE), ErrNil, NilDV)
    ELSE IF ~JsonUnmarshaler(h, k, b, ib)[1]
         THEN ResultH(s, ErrDecode, NilDV, Calls(0, 1, h, Val(0, <<>>)))
    ELSE ResultH(Container(JsonUnmarshaler(h, k, b, ib)[2], TRUE), ErrNil, NilDV,
                 Calls(0, 1, h, Val(0, <<>>)))

(* Texts handed to UnmarshalJSON: null, every encoding of a value of T by  *)
(* either hook, encodings of other kinds, and malformed texts.             *)
Malformed ==
    {<<>>, <<"n", "u", "l">>, <<"-">>, <<"0", "1">>, <<Quote, "a">>, <<"t", "r", "u", "e">>,
     <<Quote, "a", Quote>>, <<Quote, "Y", Quote>>, <<"{", "1", "}">>, Dec(Pow2(Bits64)), <<"1">>,
     Quoted(<<"T", "1">>), Quoted(<<"D", "1">>)}

JsonInputs(k, ib) ==
    {nullBytes} \cup Malformed
        \cup {JsonMarshaler(h, k, v) : h \in Hooks, v \in Values(k, ib)}

(* ----------------------------- actions -------------------------------- *)
Cur == Container(value, ok)

NoArg == DV("none", 0, <<>>)

Apply(name, a, r) ==
    /\ op' = name
    /\ arg' = a
    /\ value' = r.c.value
    /\ ok' = r.c.ok
    /\ err' = r.err
    /\ ret' = r.ret
    /\ prevValue' = value
    /\ prevOk' = ok
    /\ calls' = r.calls
    /\ UNCHANGED <<T, IntBits, hook>>

Init ==
    /\ T \in Kinds
    /\ IntBits \in (IF T \in {"int", "uint"} THEN {Bits32, Bits64} ELSE {Bits64})
    /\ hook = "default"
    /\ \E c \in {Container(DefaultValue(T), FALSE)}
               \cup {NullableValue(v) : v \in Values(T, IntBits)}
               \cup {TypeValue(v) : v \in Values(T, IntBits)}
               \cup {NullableValueFromPtr(T, p) : p \in Ptrs(T, IntBits)}
               \cup {TypeValueFromPtr(T, p) : p \in Ptrs(T, IntBits)} :
          /\ value = c.value
          /\ ok = c.ok
          /\ prevValue = c.value
          /\ prevOk = c.ok
    /\ op = "init"
    /\ arg = NoArg
    /\ err = ErrNil
    /\ ret = NilDV
    /\ calls = NoCalls

SetNull == Apply("SetNull", NoArg, Result(SetNullOp(T, Cur), ErrNil, NilDV))

SetValue ==
    \E v \in Values(T, IntBits) :
        Apply("SetValue", DV(T, v.i, v.b), Result(SetValueOp(Cur, v), ErrNil, NilDV))

SetValueFromPtr ==
    \E p \in Ptrs(T, IntBits) :
        Apply("SetValueFromPtr", DV(IF p.isNil THEN "nil" ELSE T, p.v.i, p.v.b),
              Result(SetValueFromPtrOp(T, Cur, p), ErrNil, NilDV))

NullableValueCall == Apply("Value", NoArg, Value(T, Cur, IntBits))

NullableScan ==
    \E src \in DriverValues(IntBits) : Apply("Scan", src, Scan(T, Cur, src, IntBits))

BoolDV(x) == DV("bool", IF x THEN 1 ELSE 0, <<>>)

ContainerDV(k, c) == DV(IF c.ok THEN k ELSE "nil", c.value.i, c.value.b)

RawValueCall ==
    Apply("RawValue", NoArg,
          Result(Cur, ErrNil, DV(T, RawValue(T, Cur).i, RawValue(T, Cur).b)))

CheckedValueCall ==
    Apply("CheckedValue", NoArg,
          Result(Cur, ErrNil,
                 DV(IF CheckedValue(T, Cur)[2] THEN T ELSE "nil",
                    CheckedValue(T, Cur)[1].i, CheckedValue(T, Cur)[1].b)))

DefaultValueCall ==
    Apply("DefaultValue", NoArg,
          Result(Cur, ErrNil, DV(T, DefaultValue(T).i, DefaultValue(T).b)))

IsNullCall == Apply("IsNull", NoArg, Result(Cur, ErrNil, BoolDV(IsNull(Cur))))

(* Equal belongs to Type[T SupportedTypes]; its argument is a container. *)
SupportedTypes == {"int64", "float64", "bool", "string", "time"}

Others(k, ib) == {Container(DefaultValue(k), FALSE)} \cup {Container(v, TRUE) : v \in Values(k, ib)}

TypeScanCall ==
    /\ T \in SupportedTypes
    /\ \E src \in DriverValues(IntBits) : Apply("Type.Scan", src, TypeScan(T, Cur, src))

EqualCall ==
    /\ T \in SupportedTypes
    /\ \E v \in Others(T, IntBits) :
          Apply("Equal", ContainerDV(T, v), Result(Cur, ErrNil, BoolDV(Equal(Cur, v))))

NullableMarshalJSONCall == Apply("MarshalJSON", NoArg, NullableMarshalJSON(T, Cur))

NullableUnmarshalJSONCall ==
    \E bytes \in JsonInputs(T, IntBits) :
        Apply("UnmarshalJSON", JsonDV(bytes), NullableUnmarshalJSON(T, Cur, bytes, IntBits))

TypeMarshalJSONCall == Apply("Type.MarshalJSON", NoArg, TypeMarshalJSON(hook, T, Cur))

TypeUnmarshalJSONCall ==
    \E b \in JsonInputs(T, IntBits) :
        Apply("Type.UnmarshalJSON", JsonDV(b), TypeUnmarshalJSON(hook, T, Cur, b, IntBits))

(* Reassignment of the package variables JsonMarshaler / JsonUnmarshaler. *)
SetHooks ==
    \E h \in Hooks \ {hook} :
        /\ hook' = h
        /\ op' = "SetHooks"
        /\ arg' = NoArg
        /\ err' = ErrNil
        /\ ret' = NilDV
        /\ prevValue' = value
        /\ prevOk' = ok
        /\ calls' = NoCalls
        /\ UNCHANGED <<T, IntBits, value, ok>>

Next ==
    \/ NullableMarshalJSONCall
    \/ NullableUnmarshalJSONCall
    \/ TypeMarshalJSONCall
    \/ TypeUnmarshalJSONCall
    \/ SetHooks
    \/ SetNull
    \/ SetValue
    \/ SetValueFromPtr
    \/ RawValueCall
    \/ CheckedValueCall
    \/ IsNullCall
    \/ DefaultValueCall
    \/ EqualCall
    \/ TypeScanCall
    \/ NullableValueCall
    \/ NullableScan

Spec == Init /\ [][Next]_vars

(* ============================ properties ============================== *)
Fresh == Container(DefaultValue(T), FALSE)

DriverKindOf(k) ==
    CASE k \in IntKinds -> "int64"
      [] k \in {"float32", "float64"} -> "float64"
      [] OTHER -> k

(* The spec's rule for a driver kind that matches or converts to T. *)
SrcMatches(k, sk) ==
    /\ k \in {"int", "int32", "int64", "uint", "uint32", "uint64",
              "float32", "float64", "bool", "bytes", "string", "time"}
    /\ \/ sk = DriverKindOf(k)
       \/ (k = "string" /\ sk = "bytes")
       \/ (k = "bytes" /\ sk = "string")

MismatchingScan == op = "Scan" /\ arg.k # "nil" /\ ~SrcMatches(T, arg.k)

(* C1: in every reachable state a container whose presence flag is false  *)
(* holds the zero value of T.                                             *)
C1_AbsentHoldsZero == ~ok => value = DefaultValue(T)

C1_Witness ==
    /\ op \in {"SetNull", "SetValueFromPtr", "Scan"}
    /\ prevOk /\ prevValue # DefaultValue(T)
    /\ ~ok /\ value = DefaultValue(T)

(* C2: Value on an absent container returns the null marker and a nil     *)
(* error for every T, also for a T outside the supported set.             *)
C2_AbsentValueIsNull == (op = "Value" /\ ~ok) => (ret = NilDV /\ err = ErrNil)

(* C3: Scan with a non-nil src whose kind does not match or convert to T  *)
(* returns ErrScanningTypeMismatch.                                       *)
C3_MismatchReturnsError == MismatchingScan => err = ErrScanningTypeMismatch

(* C4 as stated: Scan(nil) leaves the container absent with the zero      *)
(* value, for every T.                                                    *)
C4_ScanNilEveryT ==
    (op = "Scan" /\ arg.k = "nil") => (IsNull(Cur) /\ RawValue(T, Cur) = DefaultValue(T) /\ value = DefaultValue(T))

(* C4 amended: Scan(nil) on a container of a T that Scan supports (int,   *)
(* int32, int64, uint, uint32, uint64, float32, float64, bool, []byte,    *)
(* string, time.Time) returns nil and leaves it absent with the zero      *)
(* value, whatever it held before.                                        *)
C4_ScanNilSupportedT ==
    (op = "Scan" /\ arg.k = "nil" /\ SrcMatches(T, DriverKindOf(T))) =>
        (err = ErrNil /\ IsNull(Cur) /\ RawValue(T, Cur) = DefaultValue(T) /\ value = DefaultValue(T))

C4_Witness ==
    /\ op = "Scan" /\ arg.k = "nil" /\ T = "string"
    /\ prevOk /\ prevValue # DefaultValue(T)
    /\ ~ok

(* C5 as stated: after a mismatching Scan the container is absent with    *)
(* the zero value.                                                        *)
C5_MismatchClears == MismatchingScan => (~ok /\ value = DefaultValue(T))

(* C5 amended: a mismatching Scan leaves the value and the presence flag  *)
(* exactly as they were before the call.                                  *)
C5_MismatchKeepsState == MismatchingScan => (ok = prevOk /\ value = prevValue)

C5_Witness ==
    /\ MismatchingScan /\ T = "int64" /\ arg.k = "string"
    /\ prevOk /\ prevValue # DefaultValue(T) /\ ok

(* C6: a.Equal(b) is true iff both are present with equal values or both  *)
(* are absent.                                                            *)
C6_EqualIffSameState ==
    op = "Equal" =>
        (ret = BoolDV(\/ (ok /\ arg.k # "nil" /\ value = Val(arg.i, arg.b))
                      \/ (~ok /\ arg.k = "nil")))

(* C7: storage round trip: the driver value d returned by Value for a     *)
(* present container of a supported T, scanned into a fresh container of  *)
(* the same T, gives no error and the same present value.                 *)
RoundTripTypes ==
    {"int", "int32", "int64", "uint", "uint32", "uint64", "bool", "bytes", "string", "time"}

C7_StorageRoundTrip ==
    (op = "Value" /\ ok /\ T \in RoundTripTypes) =>
        /\ err = ErrNil
        /\ Scan(T, Fresh, ret, IntBits).err = ErrNil
        /\ Scan(T, Fresh, ret, IntBits).c = Container(value, TRUE)

C7_Witness ==
    /\ op = "Value" /\ ok /\ T = "uint64"
    /\ value.i = Pow2(Bits64) - 1
    /\ ret = DV("int64", 0 - 1, <<>>)
    /\ Scan(T, Fresh, ret, IntBits).c = Container(value, TRUE)

(* C8 as stated: Value on a present container of any fixed-width integer  *)
(* kind returns nil and an int64 numerically equal to the stored value.   *)
C8_EveryIntKindWidens ==
    (op = "Value" /\ ok /\ T \in IntKinds) =>
        (err = ErrNil /\ ret.k = "int64" /\ ret.i = value.i)

(* C8 amended: for T among int, int32, int64, uint, uint32, uint64 Value  *)
(* returns nil and the int64 congruent to the stored value modulo 2^64,   *)
(* equal to it whenever it is at most the maximum int64; for the 8 and 16 *)
(* bit kinds it returns ErrTypeIsNotSupported.                            *)
C8_SupportedIntKindsWiden ==
    (op = "Value" /\ ok /\ T \in IntKinds) =>
        IF T \in {"int", "int32", "int64", "uint", "uint32", "uint64"}
        THEN /\ err = ErrNil
             /\ ret.k = "int64"
             /\ ret.i \in IntRange("int64", IntBits)
             /\ (ret.i - value.i) % Pow2(Bits64) = 0
             /\ (value.i < Pow2(Bits64 - 1) => ret.i = value.i)
        ELSE err = ErrTypeIsNotSupported /\ ret = NilDV

C8_Witness ==
    /\ op = "Value" /\ ok /\ T = "uint32"
    /\ value.i = Pow2(Bits32) - 1
    /\ ret = DV("int64", Pow2(Bits32) - 1, <<>>)

(* C9: UnmarshalJSON given bytes other than null that the decoder rejects *)
(* returns the decoder's error and leaves value and presence flag as they *)
(* were before the call.                                                  *)
RejectedDecode ==
    /\ arg.k = "json" /\ arg.b # nullBytes
    /\ \/ (op = "UnmarshalJSON" /\ ~jsonUnmarshal(T, arg.b, IntBits)[1])
       \/ (op = "Type.UnmarshalJSON" /\ ~JsonUnmarshaler(hook, T, arg.b, IntBits)[1])

C9_FailedDecodeKeepsState ==
    RejectedDecode => (err = ErrDecode /\ value = prevValue /\ ok = prevOk)

C9_Witness ==
    /\ RejectedDecode /\ op = "Type.UnmarshalJSON"
    /\ hook = "custom" /\ T = "time" /\ arg.b = Quoted(<<"T", "1">>)
    /\ prevOk /\ prevValue # DefaultValue(T)
    /\ err = ErrDecode /\ ok

(* C10 as stated: UnmarshalJSON, on any container, of the bytes returned  *)
(* by MarshalJSON of a present container wrapping v returns no error and  *)
(* leaves RawValue() equal to v, for every T and v.                       *)
Decoded(o, c) ==
    IF o = "MarshalJSON" THEN NullableUnmarshalJSON(T, c, ret.b, IntBits)
    ELSE TypeUnmarshalJSON(hook, T, c, ret.b, IntBits)

PresentMarshal == op \in {"MarshalJSON", "Type.MarshalJSON"} /\ ok /\ err = ErrNil

C10_JsonRoundTripEveryValue ==
    PresentMarshal =>
        \A c \in Others(T, IntBits) :
            /\ Decoded(op, c).err = ErrNil
            /\ RawValue(T, Decoded(op, c).c) = value

(* C10 amended: the round trip returns no error and leaves RawValue()     *)
(* equal to v provided MarshalJSON did not return the bytes null; when it *)
(* did, UnmarshalJSON leaves the container absent and RawValue() is the   *)
(* zero value of T, which is v only if v is the zero value.               *)
C10_JsonRoundTripUnlessNull ==
    PresentMarshal =>
        \A c \in Others(T, IntBits) :
            /\ Decoded(op, c).err = ErrNil
            /\ RawValue(T, Decoded(op, c).c) = (IF ret.b = nullBytes THEN DefaultValue(T) ELSE value)

C10_Witness ==
    /\ PresentMarshal /\ op = "Type.MarshalJSON" /\ hook = "custom" /\ T = "time"
    /\ value.i = MaxTime /\ ret.b = Quoted(<<"D">> \o Dec(MaxTime))
    /\ \A c \in Others(T, IntBits) : Decoded(op, c).c = Container(value, TRUE)

(* C11: Type.MarshalJSON of an absent container returns the bytes null    *)
(* without calling JsonMarshaler, and of a present one calls the assigned *)
(* JsonMarshaler once with the raw value and returns its bytes and error;  *)
(* Type.UnmarshalJSON of null clears the container without calling        *)
(* JsonUnmarshaler, and of any other bytes calls the assigned one once.   *)
C11_HooksCalledOnlyWhenPresent ==
    /\ (op = "Type.MarshalJSON" /\ ~ok) =>
            (ret = JsonDV(nullBytes) /\ Len(ret.b) = 4 /\ err = ErrNil /\ calls = NoCalls)
    /\ (op = "Type.MarshalJSON" /\ ok) =>
            /\ calls = Calls(1, 0, hook, RawValue(T, Cur))
            /\ ret = JsonDV(JsonMarshaler(hook, T, value))
            /\ err = JsonMarshalerErr(hook, T, value)
    /\ (op = "Type.UnmarshalJSON" /\ arg.b = nullBytes) =>
            (~ok /\ value = DefaultValue(T) /\ err = ErrNil /\ calls = NoCalls)
    /\ (op = "Type.UnmarshalJSON" /\ arg.b # nullBytes) =>
            (calls.marshal = 0 /\ calls.unmarshal = 1 /\ calls.hook = hook)

C11_Witness ==
    /\ op = "Type.MarshalJSON" /\ ok /\ hook = "custom" /\ T = "time"
    /\ value.i = 1 /\ ret.b = Quoted(<<"D", "1">>)
    /\ calls.marshal = 1

(* C12: Scan of a []byte src into a string container, and of a string src *)
(* into a []byte container, returns no error and leaves the container     *)
(* present with the byte content of src, as for a src of its own kind.    *)
TextScan ==
    /\ arg.k \in {"string", "bytes"}
    /\ \/ (op = "Scan" /\ T \in {"string", "bytes"})
       \/ (op = "Type.Scan" /\ T = "string")

C12_TextAndBytesConvert ==
    TextScan => (err = ErrNil /\ ok /\ value.b = arg.b)

C12_Witness ==
    /\ TextScan /\ op = "Scan" /\ T = "string" /\ arg = DV("bytes", 1, <<"a", "b">>)
    /\ ~prevOk /\ ok /\ value = Val(0, <<"a", "b">>) /\ err = ErrNil

(* C13 as stated: the state changes only through SetValue, SetNull,       *)
(* SetValueFromPtr or a successful UnmarshalJSON; every other operation   *)
(* leaves the presence flag and the value as they were.                   *)
Setters == {"SetValue", "SetNull", "SetValueFromPtr"}

Decoders == {"UnmarshalJSON", "Type.UnmarshalJSON"}

Scanners == {"Scan", "Type.Scan"}

Unchanged == ok = prevOk /\ value = prevValue

C13_OnlySettersAndDecode ==
    (op \notin Setters /\ ~(op \in Decoders /\ err = ErrNil)) => Unchanged

(* C13 amended: the state changes only through SetValue, SetNull,         *)
(* SetValueFromPtr, a successful UnmarshalJSON or a Scan that returns     *)
(* nil; RawValue, CheckedValue, IsNull, Equal, DefaultValue, MarshalJSON, *)
(* Value, a failed UnmarshalJSON and a Scan that returns an error leave   *)
(* the presence flag and the value as they were.                          *)
C13_OnlySettersDecodeAndScan ==
    (/\ op \notin Setters
     /\ ~(op \in Decoders /\ err = ErrNil)
     /\ ~(op \in Scanners /\ err = ErrNil)) => Unchanged

C13_Witness ==
    /\ op = "UnmarshalJSON" /\ err = ErrDecode /\ T = "int64" /\ arg.b = <<"t", "r", "u", "e">>
    /\ prevOk /\ prevValue # DefaultValue(T) /\ Unchanged

(* C14: Scan of a driver int64 x into a container of a narrower or        *)
(* unsigned integer kind returns nil and leaves it present with x reduced *)
(* modulo 2^w and reinterpreted in T; the stored value differs from x     *)
(* exactly when x is outside the range of T.                              *)
NarrowingTypes == {"int32", "uint32", "uint", "uint64"}

C14_NarrowingScanWraps ==
    (op = "Scan" /\ T \in NarrowingTypes /\ arg.k = "int64") =>
        /\ err = ErrNil
        /\ ok
        /\ value.b = <<>>
        /\ value.i \in IntRange(T, IntBits)
        /\ (value.i - arg.i) % Pow2(Bits(T, IntBits)) = 0
        /\ (value.i # arg.i) <=> (arg.i \notin IntRange(T, IntBits))

C14_Witness ==
    /\ op = "Scan" /\ T = "uint64" /\ arg = DV("int64", 0 - 1, <<>>)
    /\ err = ErrNil /\ ok /\ value.i = Pow2(Bits64) - 1

(* C15 as stated: UnmarshalJSON of the bytes returned by c.MarshalJSON()  *)
(* yields a container whose IsNull() equals c.IsNull(), also when the     *)
(* encoder renders the value of a present c as null.                      *)
Marshalled == op \in {"MarshalJSON", "Type.MarshalJSON"} /\ err = ErrNil

C15_PresenceRoundTrips ==
    Marshalled => \A c \in Others(T, IntBits) : IsNull(Decoded(op, c).c) = IsNull(Cur)

(* C15 amended: when MarshalJSON returns no error, UnmarshalJSON of its   *)
(* bytes yields IsNull() equal to c.IsNull() unless c is present and its  *)
(* value is rendered as the bytes null; in that case the result is an     *)
(* absent container.                                                      *)
C15_PresenceRoundTripsUnlessNull ==
    Marshalled =>
        \A c \in Others(T, IntBits) :
            IsNull(Decoded(op, c).c) = (IsNull(Cur) \/ ret.b = nullBytes)

C15_Witness ==
    /\ Marshalled /\ op = "MarshalJSON" /\ T = "bytes"
    /\ ok /\ value = Val(0, <<>>) /\ ret.b = nullBytes
    /\ \A c \in Others(T, IntBits) : IsNull(Decoded(op, c).c)

====
